---- MODULE Spec2Model ----
(***************************************************************************)
(* Model of fan-controller.py: the CLI validation, the construction of the *)
(* temperature -> duty-cycle table (FanControllerCfg), the retrying pigpio *)
(* setup (FanController.pigpio_setup under tenacity's @retry), the control *)
(* loop thread (FanController.loop) and the SIGTERM handling of __main__.   *)
(*                                                                         *)
(* Temperatures read from the sensor are reals; they are represented in    *)
(* tenths of a degree (479 is 47.9 degrees), so floor() is a real          *)
(* conversion.  Every other quantity is an integer as in the source.       *)
(***************************************************************************)
EXTENDS Integers, Sequences, FiniteSets, TLC

VARIABLES
    args,        \* the parsed CLI values (min_dc, max_dc, precision)
    mainpc,      \* position of the main thread in __main__
    proc,        \* the process: "running", "killed" (default SIGTERM), "exited"
    cfg,         \* FanControllerCfg instance (NoCfg before construction)
    self_dc,     \* FanController._dc
    self_pi,     \* FanController._pi: id of the pigpio handle, 0 is None
    attempt,     \* tenacity attempt_number of pigpio_setup
    wait,        \* the last wait computed by wait_exponential
    setupErr,    \* what the last failed attempt of pigpio_setup raised
    unreachable, \* backend: connection attempts that will still fail
    progFaults,  \* backend: programming faults that may still happen
    applyFaults, \* backend: set_PWM_dutycycle faults that may still happen
    open,        \* backend: ids of the connected handles not stopped yet
    hw_dc,       \* backend: duty cycle of the pin (None before any apply)
    calls,       \* every backend call made, in order
    token,       \* threading.Event e
    registered,  \* signal_handler is installed for SIGTERM
    sigs,        \* SIGTERMs delivered so far
    sigAfterStart, \* a SIGTERM was delivered after t.start()
    logged,      \* messages logged from signal_handler
    setAt,       \* <<samples taken, calls made>> when the token was first set
    looppc,      \* position of the loop thread in FanController.loop
    temp,        \* last sensor reading (tenths of a degree)
    targets,     \* the duty cycles the loop computed, one per iteration
    observed     \* Len(calls) when the loop saw the token set (None before)

vars == << args, mainpc, proc, cfg, self_dc, self_pi, attempt, wait, setupErr,
           unreachable, progFaults, applyFaults, open, hw_dc, calls, token,
           registered, sigs, sigAfterStart, logged, setAt, looppc, temp,
           targets, observed >>

\* ------------------------------------------------------------------ bounds

MaxUnreachable == 3
MaxProgFaults == 1
MaxApplyFaults == 1
MaxSamples == 3
MaxSignals == 2

\* ------------------------------------------------- values and conversions

\* Python's None, also used for "no value yet" in the model's own variables
None == -1

Min(a, b) == IF a < b THEN a ELSE b
Max(a, b) == IF a > b THEN a ELSE b

\* math.floor of a reading given in tenths of a degree
floor(x) == x \div 10

\* list(range(start, stop, step)) for step > 0; a zero step raises ValueError
\* in Python and is reported as the empty list here (see FanControllerCfg).
range(start, stop, step) ==
    IF step <= 0 \/ stop <= start THEN << >>
    ELSE [i \in 1..((stop - start + step - 1) \div step) |-> start + (i - 1) * step]

\* dict(zip(ks, vs)): pairs up to the shorter list, a later pair wins
dict_zip(ks, vs) ==
    LET n == Min(Len(ks), Len(vs))
        last(k) == CHOOSE i \in 1..n : ks[i] = k /\ \A j \in 1..n : ks[j] = k => j <= i
    IN  [k \in {ks[i] : i \in 1..n} |-> vs[last(k)]]

\* dict.get(k): None when the key is missing
get(d, k) == IF k \in DOMAIN d THEN d[k] ELSE None

\* ------------------------------------------------------- CLI validation

PrecisionValues == {5, 10, 25, 50}

\* str.isdigit() of the textual option value: a leading '-' is no digit
isdigit(v) == v >= 0

\* the chain without the check of the precision enumeration
Validate_without_precision(a) ==
    IF ~(isdigit(a.min_dc) /\ isdigit(a.max_dc) /\ isdigit(a.precision))
        THEN "not a valid number"
    ELSE IF a.min_dc \notin 0..95 THEN "min duty cycle value should belong to [0,95]"
    ELSE IF a.max_dc \notin 5..100 THEN "max duty cycle value should belong to [5,100]"
    ELSE IF a.min_dc >= a.max_dc THEN "min should be less than max"
    ELSE IF (a.max_dc - a.min_dc) % a.precision # 0
        THEN "range should be a multiple of precision"
    ELSE "ok"

\* The chain of checks of __main__; "ok" when none raises SystemExit
Validate(a) ==
    IF ~(isdigit(a.min_dc) /\ isdigit(a.max_dc) /\ isdigit(a.precision))
        THEN "not a valid number"
    ELSE IF a.precision \notin PrecisionValues THEN "invalid precision value"
    ELSE IF a.min_dc \notin 0..95 THEN "min duty cycle value should belong to [0,95]"
    ELSE IF a.max_dc \notin 5..100 THEN "max duty cycle value should belong to [5,100]"
    ELSE IF a.min_dc >= a.max_dc THEN "min should be less than max"
    ELSE IF (a.max_dc - a.min_dc) % a.precision # 0
        THEN "range should be a multiple of precision"
    ELSE "ok"

\* ------------------------------------------------------ FanControllerCfg

min_temp == 30
max_temp == 80

NoCfg == [temp_step |-> 0, temp_range |-> << >>, dc_step |-> 0, dc_range |-> << >>]

temp_step(a) == (max_temp - min_temp) \div a.precision
dc_step(a) == (a.max_dc - a.min_dc) \div a.precision

\* the ranges built with their last value left out (stop not moved by a step)
FanControllerCfg_exclusive(a) ==
    [temp_step  |-> temp_step(a),
     temp_range |-> range(min_temp, max_temp, temp_step(a)),
     dc_step    |-> dc_step(a),
     dc_range   |-> range(a.min_dc, a.max_dc, dc_step(a))]

FanControllerCfg(a) ==
    [temp_step  |-> temp_step(a),
     temp_range |-> range(min_temp, max_temp + temp_step(a), temp_step(a)),
     dc_step    |-> dc_step(a),
     dc_range   |-> range(a.min_dc, a.max_dc + dc_step(a), dc_step(a))]

runtime_values(c) == dict_zip(c.temp_range, c.dc_range)

\* ------------------------------------------- loop body, lines 138 to 143

\* rounding up to the next bucket boundary instead of down
quantize_up(c, t) == ((t + c.temp_step - 1) \div c.temp_step) * c.temp_step

\* no quantization: the floored temperature is used as the key
quantize_identity(c, t) == t

quantize(c, t) == (t \div c.temp_step) * c.temp_step

\* the upper clamp assigning the wrong end of the range
clamp_wrong_end(t) ==
    LET lo == IF t < min_temp THEN min_temp ELSE t
    IN  IF lo > max_temp THEN min_temp ELSE lo

\* the clamp without its lower bound
clamp_upper_only(t) == IF t > max_temp THEN max_temp ELSE t

clamp(t) ==
    LET lo == IF t < min_temp THEN min_temp ELSE t
    IN  IF lo > max_temp THEN max_temp ELSE lo

\* the duty cycle the loop selects for a sensor reading x
lookup(c, x) == get(runtime_values(c), clamp(quantize(c, floor(x))))

\* --------------------------------------------------- inputs of the model

MinDcInputs == {-1, 0, 20, 96}
MaxDcInputs == {4, 40, 100, 101}
PrecisionInputs == {7, 10, 20}

\* sensor readings in tenths of a degree: -1.5, 47.9 and 85.0 degrees
Readings == {-15, 479, 850}

\* the state of the process when __main__ starts, for CLI values a and a
\* backend that refuses the first u connections
InitState(a, u) ==
    /\ args = a
    /\ mainpc = "validate"
    /\ proc = "running"
    /\ cfg = NoCfg
    /\ self_dc = 0
    /\ self_pi = 0
    /\ attempt = 0
    /\ wait = 0
    /\ setupErr = "none"
    /\ unreachable = u
    /\ progFaults = MaxProgFaults
    /\ applyFaults = MaxApplyFaults
    /\ open = {}
    /\ hw_dc = None
    /\ calls = << >>
    /\ token = FALSE
    /\ registered = FALSE
    /\ sigs = 0
    /\ sigAfterStart = FALSE
    /\ logged = 0
    /\ setAt = << None, None >>
    /\ looppc = "notstarted"
    /\ temp = 0
    /\ targets = << >>
    /\ observed = None

Inputs == [min_dc : MinDcInputs, max_dc : MaxDcInputs, precision : PrecisionInputs]

\* the whole program, with a daemon that is up or refuses the first connection
Init == \E a \in Inputs, u \in 0..1 : InitState(a, u)

\* the setup phase, with a daemon that refuses up to MaxUnreachable connections
InitSetup == \E a \in Inputs, u \in 0..MaxUnreachable : InitState(a, u)

Call(op, h, arg, by) == [op |-> op, h |-> h, arg |-> arg, by |-> by]

mainVars == << args, mainpc, cfg, attempt, wait, setupErr >>
backendVars == << unreachable, progFaults, applyFaults, open, hw_dc, calls >>
signalVars == << token, registered, sigs, sigAfterStart, logged, setAt >>
loopVars == << looppc, temp, targets, observed >>

\* ------------------------------------------------- __main__, main thread

\* lines 161-184: the CLI options validation, SystemExit on the first failure
cli_validation ==
    /\ proc = "running" /\ mainpc = "validate"
    /\ IF Validate(args) = "ok"
          THEN mainpc' = "construct" /\ proc' = proc
          ELSE mainpc' = "rejected" /\ proc' = "exited"
    /\ UNCHANGED << args, cfg, self_dc, self_pi, attempt, wait, setupErr >>
    /\ UNCHANGED << backendVars, signalVars, loopVars >>

\* line 189: FanController(cfg=FanControllerCfg(args)); range() raises
\* ValueError on a zero step, which ends the process
construct ==
    /\ proc = "running" /\ mainpc = "construct"
    /\ IF temp_step(args) = 0 \/ dc_step(args) = 0
          THEN mainpc' = "error" /\ proc' = "exited" /\ cfg' = cfg
          ELSE mainpc' = "setup" /\ proc' = proc /\ cfg' = FanControllerCfg(args)
    /\ self_dc' = 0
    /\ self_pi' = 0
    /\ UNCHANGED << args, attempt, wait, setupErr >>
    /\ UNCHANGED << backendVars, signalVars, loopVars >>

\* ----------------------- pigpio_setup under @retry(wait=wait_exponential(max=5))

\* a bounded retry, as stop_after_attempt(3) would give
retry_stop_after_3(n) == n >= 3

\* tenacity's default stop: stop_never
retry_stop(n) == FALSE

\* tenacity's default retry: retry_if_exception_type(), every Exception
retry_if(err) == TRUE

\* the exponential wait without its cap
wait_exponential_uncapped(n) == 2 ^ (n - 1)

\* wait_exponential(multiplier=1, max=5, exp_base=2, min=0) before attempt n+1
wait_exponential(n) == Max(0, Min(2 ^ (n - 1), 5))

\* what @retry does with an attempt that raised err
Retried(err, n) ==
    /\ setupErr' = err
    /\ attempt' = n
    /\ IF retry_if(err) /\ ~retry_stop(n)
          THEN mainpc' = mainpc /\ proc' = proc /\ wait' = wait_exponential(n)
          ELSE mainpc' = "error" /\ proc' = "exited" /\ wait' = wait

SetupGuard == proc = "running" /\ mainpc = "setup"

\* lines 125-128: the daemon is not reachable, RuntimeError is raised
pigpio_setup_unreachable ==
    LET h == attempt + 1 IN
    /\ SetupGuard /\ unreachable > 0
    /\ unreachable' = unreachable - 1
    /\ self_pi' = h
    /\ calls' = Append(calls, Call("pi", h, 0, "main"))
    /\ Retried("connect", h)
    /\ UNCHANGED << args, cfg, self_dc, progFaults, applyFaults, open, hw_dc >>
    /\ UNCHANGED << signalVars, loopVars >>

\* lines 125-129: connected, set_PWM_frequency raises pigpio.error
pigpio_setup_frequency_fault ==
    LET h == attempt + 1 IN
    /\ SetupGuard /\ unreachable = 0 /\ progFaults > 0
    /\ progFaults' = progFaults - 1
    /\ self_pi' = h
    /\ open' = open \cup {h}
    /\ calls' = calls \o << Call("pi", h, 0, "main"),
                           Call("set_PWM_frequency", h, 0, "main") >>
    /\ Retried("program", h)
    /\ UNCHANGED << args, cfg, self_dc, unreachable, applyFaults, hw_dc >>
    /\ UNCHANGED << signalVars, loopVars >>

\* lines 125-130: connected, frequency set, set_PWM_range raises pigpio.error
pigpio_setup_range_fault ==
    LET h == attempt + 1 IN
    /\ SetupGuard /\ unreachable = 0 /\ progFaults > 0
    /\ progFaults' = progFaults - 1
    /\ self_pi' = h
    /\ open' = open \cup {h}
    /\ calls' = calls \o << Call("pi", h, 0, "main"),
                           Call("set_PWM_frequency", h, 0, "main"),
                           Call("set_PWM_range", h, 100, "main") >>
    /\ Retried("program", h)
    /\ UNCHANGED << args, cfg, self_dc, unreachable, applyFaults, hw_dc >>
    /\ UNCHANGED << signalVars, loopVars >>

\* the attempt that succeeds, without setting the duty-cycle range
pigpio_setup_without_range ==
    LET h == attempt + 1 IN
    /\ SetupGuard /\ unreachable = 0
    /\ self_pi' = h
    /\ open' = open \cup {h}
    /\ calls' = calls \o << Call("pi", h, 0, "main"),
                           Call("set_PWM_frequency", h, 0, "main") >>
    /\ attempt' = h
    /\ mainpc' = "thread"
    /\ UNCHANGED << args, proc, cfg, self_dc, wait, setupErr >>
    /\ UNCHANGED << unreachable, progFaults, applyFaults, hw_dc >>
    /\ UNCHANGED << signalVars, loopVars >>

\* lines 125-131: the attempt that succeeds
pigpio_setup ==
    LET h == attempt + 1 IN
    /\ SetupGuard /\ unreachable = 0
    /\ self_pi' = h
    /\ open' = open \cup {h}
    /\ calls' = calls \o << Call("pi", h, 0, "main"),
                           Call("set_PWM_frequency", h, 0, "main"),
                           Call("set_PWM_range", h, 100, "main") >>
    /\ attempt' = h
    /\ mainpc' = "thread"
    /\ UNCHANGED << args, proc, cfg, self_dc, wait, setupErr >>
    /\ UNCHANGED << unreachable, progFaults, applyFaults, hw_dc >>
    /\ UNCHANGED << signalVars, loopVars >>

\* lines 191-194: e = threading.Event(); t.start()
thread_start ==
    /\ proc = "running" /\ mainpc = "thread"
    /\ mainpc' = "register"
    /\ looppc' = "entry"
    /\ UNCHANGED << args, proc, cfg, self_dc, self_pi, attempt, wait, setupErr >>
    /\ UNCHANGED << backendVars, signalVars, temp, targets, observed >>

\* line 199: signal.signal(signal.SIGTERM, signal_handler)
signal_register ==
    /\ proc = "running" /\ mainpc = "register"
    /\ mainpc' = "end"
    /\ registered' = TRUE
    /\ UNCHANGED << args, proc, cfg, self_dc, self_pi, attempt, wait, setupErr >>
    /\ UNCHANGED << backendVars, token, sigs, sigAfterStart, logged, setAt, loopVars >>

\* the main thread releasing the handle itself when the script ends
process_exit_releases ==
    /\ proc = "running" /\ mainpc = "end"
    /\ looppc \in {"done", "crashed"}
    /\ proc' = "exited"
    /\ calls' = Append(calls, Call("stop", self_pi, 0, "main"))
    /\ open' = open \ {self_pi}
    /\ UNCHANGED << mainVars, self_dc, self_pi >>
    /\ UNCHANGED << unreachable, progFaults, applyFaults, hw_dc, signalVars, loopVars >>

\* end of the script: the interpreter joins the non-daemon loop thread and exits
process_exit ==
    /\ proc = "running" /\ mainpc = "end"
    /\ looppc \in {"done", "crashed"}
    /\ proc' = "exited"
    /\ UNCHANGED << mainVars, self_dc, self_pi >>
    /\ UNCHANGED << backendVars, signalVars, loopVars >>

\* ------------------------------------------------------------- SIGTERM

\* SIGTERM with no handler installed: the default action ends the process
sigterm_default ==
    /\ proc = "running" /\ ~registered /\ sigs < MaxSignals
    /\ sigs' = sigs + 1
    /\ sigAfterStart' = (sigAfterStart \/ looppc # "notstarted")
    /\ proc' = "killed"
    /\ UNCHANGED << mainVars, self_dc, self_pi >>
    /\ UNCHANGED << backendVars, token, registered, logged, setAt, loopVars >>

\* a handler that stops the fan and releases the handle itself
signal_handler_cleans_up ==
    /\ proc = "running" /\ registered /\ sigs < MaxSignals
    /\ sigs' = sigs + 1
    /\ sigAfterStart' = TRUE
    /\ logged' = logged + 1
    /\ token' = TRUE
    /\ setAt' = IF token THEN setAt ELSE << Len(targets), Len(calls) >>
    /\ calls' = calls \o << Call("set_PWM_dutycycle", self_pi, 0, "main"),
                           Call("stop", self_pi, 0, "main") >>
    /\ hw_dc' = 0
    /\ open' = open \ {self_pi}
    /\ UNCHANGED << mainVars, proc, self_dc, self_pi >>
    /\ UNCHANGED << unreachable, progFaults, applyFaults, registered, loopVars >>

\* lines 196-198: logger.info(...); e.set()
signal_handler ==
    /\ proc = "running" /\ registered /\ sigs < MaxSignals
    /\ sigs' = sigs + 1
    /\ sigAfterStart' = TRUE
    /\ logged' = logged + 1
    /\ token' = TRUE
    /\ setAt' = IF token THEN setAt ELSE << Len(targets), Len(calls) >>
    /\ UNCHANGED << mainVars, proc, self_dc, self_pi >>
    /\ UNCHANGED << backendVars, registered, loopVars >>

\* --------------------------------------- FanController.loop, loop thread

LoopAt(pc) == proc = "running" /\ looppc = pc

\* applying on every sample
needs_apply_always(dc, last) == TRUE

\* line 145: the duty cycle is applied when it differs from the last one
needs_apply(dc, last) == dc # last

\* lines 135-136: the requested and the current PWM frequency are logged
loop_entry ==
    /\ LoopAt("entry")
    /\ calls' = Append(calls, Call("get_PWM_frequency", self_pi, 0, "loop"))
    /\ looppc' = "check"
    /\ UNCHANGED << mainVars, proc, self_dc, self_pi >>
    /\ UNCHANGED << unreachable, progFaults, applyFaults, open, hw_dc >>
    /\ UNCHANGED << signalVars, temp, targets, observed >>

\* a loop condition that clears the event once it has seen it set
loop_check_clears_token ==
    /\ LoopAt("check")
    /\ token \/ Len(targets) < MaxSamples
    /\ IF token
          THEN looppc' = "cleanup" /\ observed' = Len(calls) /\ token' = FALSE
          ELSE looppc' = "body" /\ observed' = observed /\ token' = token
    /\ UNCHANGED << mainVars, proc, self_dc, self_pi >>
    /\ UNCHANGED << backendVars, registered, sigs, sigAfterStart, logged, setAt >>
    /\ UNCHANGED << temp, targets >>

\* a loop condition that does not look at the event
loop_check_ignores_token ==
    /\ LoopAt("check")
    /\ Len(targets) < MaxSamples
    /\ looppc' = "body" /\ observed' = observed
    /\ UNCHANGED << mainVars, proc, self_dc, self_pi >>
    /\ UNCHANGED << backendVars, signalVars, temp, targets >>

\* line 137: while not event.isSet(); the model takes at most MaxSamples
\* samples, so a loop that would go on after the last one stays here
loop_check ==
    /\ LoopAt("check")
    /\ token \/ Len(targets) < MaxSamples
    /\ IF token
          THEN looppc' = "cleanup" /\ observed' = Len(calls)
          ELSE looppc' = "body" /\ observed' = observed
    /\ UNCHANGED << mainVars, proc, self_dc, self_pi >>
    /\ UNCHANGED << backendVars, signalVars, temp, targets >>

\* lines 138-147: one sample; the backend accepts the duty cycle, if applied.
\* A None duty cycle makes set_PWM_dutycycle raise.
loop_body ==
    \E x \in Readings :
      LET dc == lookup(cfg, x) IN
      /\ LoopAt("body")
      /\ temp' = x
      /\ targets' = Append(targets, dc)
      /\ IF needs_apply(dc, self_dc)
            THEN /\ self_dc' = dc
                 /\ calls' = Append(calls, Call("set_PWM_dutycycle", self_pi, dc, "loop"))
                 /\ IF dc = None
                       THEN hw_dc' = hw_dc /\ looppc' = "crashed"
                       ELSE hw_dc' = dc /\ looppc' = "sleep"
            ELSE /\ UNCHANGED << self_dc, calls, hw_dc >>
                 /\ looppc' = "sleep"
      /\ UNCHANGED << mainVars, proc, self_pi, observed >>
      /\ UNCHANGED << unreachable, progFaults, applyFaults, open >>
      /\ UNCHANGED signalVars

\* the error of set_PWM_dutycycle caught in the loop, which then goes on
loop_body_fault_caught ==
    \E x \in Readings :
      LET dc == lookup(cfg, x) IN
      /\ LoopAt("body")
      /\ applyFaults > 0 /\ needs_apply(dc, self_dc)
      /\ applyFaults' = applyFaults - 1
      /\ temp' = x
      /\ targets' = Append(targets, dc)
      /\ self_dc' = dc
      /\ calls' = Append(calls, Call("set_PWM_dutycycle", self_pi, dc, "loop"))
      /\ looppc' = "sleep"
      /\ UNCHANGED << mainVars, proc, self_pi, observed >>
      /\ UNCHANGED << unreachable, progFaults, open, hw_dc >>
      /\ UNCHANGED signalVars

\* lines 138-147: one sample; set_PWM_dutycycle raises and ends the thread
loop_body_fault ==
    \E x \in Readings :
      LET dc == lookup(cfg, x) IN
      /\ LoopAt("body")
      /\ applyFaults > 0 /\ needs_apply(dc, self_dc)
      /\ applyFaults' = applyFaults - 1
      /\ temp' = x
      /\ targets' = Append(targets, dc)
      /\ self_dc' = dc
      /\ calls' = Append(calls, Call("set_PWM_dutycycle", self_pi, dc, "loop"))
      /\ looppc' = "crashed"
      /\ UNCHANGED << mainVars, proc, self_pi, observed >>
      /\ UNCHANGED << unreachable, progFaults, open, hw_dc >>
      /\ UNCHANGED signalVars

\* line 148: sleep(1)
loop_sleep ==
    /\ LoopAt("sleep")
    /\ looppc' = "check"
    /\ UNCHANGED << mainVars, proc, self_dc, self_pi >>
    /\ UNCHANGED << backendVars, signalVars, temp, targets, observed >>

\* the cleanup without forcing the duty cycle to 0
loop_cleanup_without_zero ==
    /\ LoopAt("cleanup")
    /\ looppc' = "stop"
    /\ UNCHANGED << mainVars, proc, self_dc, self_pi >>
    /\ UNCHANGED << backendVars, signalVars, temp, targets, observed >>

\* line 150: self._pi.set_PWM_dutycycle(pin, 0)
loop_cleanup ==
    /\ LoopAt("cleanup")
    /\ calls' = Append(calls, Call("set_PWM_dutycycle", self_pi, 0, "loop"))
    /\ hw_dc' = 0
    /\ looppc' = "stop"
    /\ UNCHANGED << mainVars, proc, self_dc, self_pi >>
    /\ UNCHANGED << unreachable, progFaults, applyFaults, open >>
    /\ UNCHANGED << signalVars, temp, targets, observed >>

\* line 150 raises: the thread ends before line 151
loop_cleanup_fault ==
    /\ LoopAt("cleanup") /\ applyFaults > 0
    /\ applyFaults' = applyFaults - 1
    /\ calls' = Append(calls, Call("set_PWM_dutycycle", self_pi, 0, "loop"))
    /\ looppc' = "crashed"
    /\ UNCHANGED << mainVars, proc, self_dc, self_pi >>
    /\ UNCHANGED << unreachable, progFaults, open, hw_dc >>
    /\ UNCHANGED << signalVars, temp, targets, observed >>

\* line 151: self._pi.stop()
loop_stop ==
    /\ LoopAt("stop")
    /\ calls' = Append(calls, Call("stop", self_pi, 0, "loop"))
    /\ open' = open \ {self_pi}
    /\ looppc' = "done"
    /\ UNCHANGED << mainVars, proc, self_dc, self_pi >>
    /\ UNCHANGED << unreachable, progFaults, applyFaults, hw_dc >>
    /\ UNCHANGED << signalVars, temp, targets, observed >>

\* ------------------------------------------------------- specification

MainNext ==
    \/ cli_validation
    \/ construct
    \/ pigpio_setup_unreachable
    \/ pigpio_setup_frequency_fault
    \/ pigpio_setup_range_fault
    \/ pigpio_setup
    \/ thread_start
    \/ signal_register
    \/ process_exit

LoopNext ==
    \/ loop_entry
    \/ loop_check
    \/ loop_body
    \/ loop_body_fault
    \/ loop_sleep
    \/ loop_cleanup
    \/ loop_cleanup_fault
    \/ loop_stop

Next == MainNext \/ LoopNext \/ sigterm_default \/ signal_handler

Spec == Init /\ [][Next]_vars

\* The loop thread is scheduled fairly: a step of the loop that can be taken
\* is eventually taken.
LiveInputs == [min_dc : {0, 20}, max_dc : {40}, precision : {7, 10}]

InitLive == \E a \in LiveInputs, u \in 0..1 : InitState(a, u)

SpecLive == InitLive /\ [][Next]_vars /\ WF_vars(LoopNext)

\* ------------------------------------- the setup phase on its own

SetupNext ==
    \/ cli_validation
    \/ construct
    \/ pigpio_setup_unreachable
    \/ pigpio_setup_frequency_fault
    \/ pigpio_setup_range_fault
    \/ pigpio_setup

\* The main thread is the only thread until t.start() and it keeps running:
\* an attempt of pigpio_setup that can be made is eventually made.
SpecSetup == InitSetup /\ [][SetupNext \/ sigterm_default]_vars /\ WF_vars(SetupNext)

\* ------------------------------ the table and the lookup on their own

AllArgs == [min_dc : -1..96, max_dc : 4..101, precision : PrecisionValues \cup {7}]

\* readings in tenths of a degree: both ends of every degree from 25 to 85,
\* and readings far below and above the table
CfgReadings ==
    {10 * d + f : d \in 25..85, f \in {0, 9}} \cup {-105, -1, 0, 5, 1000, 1209}

InitCfg == \E a \in AllArgs : InitState(a, 0)

\* lines 138-143 for one reading of the sensor, with the table just built
loop_lookup ==
    \E x \in CfgReadings :
      /\ proc = "running" /\ mainpc = "setup" /\ targets = << >>
      /\ temp' = x
      /\ targets' = << lookup(cfg, x) >>
      /\ UNCHANGED << mainVars, proc, self_dc, self_pi, looppc, observed >>
      /\ UNCHANGED << backendVars, signalVars >>

SpecCfg == InitCfg /\ [][cli_validation \/ construct \/ loop_lookup]_vars

\* ================================================================ claims

\* the backend calls of the steady-state loop, and those made since the
\* loop saw the token set
Applies(cs) == {i \in 1..Len(cs) : cs[i].op = "set_PWM_dutycycle"}
Stops(cs) == {i \in 1..Len(cs) : cs[i].op = "stop"}
SteadyCalls == IF observed = None THEN calls ELSE SubSeq(calls, 1, observed)
SinceObserved == IF observed = None THEN << >> ELSE SubSeq(calls, observed + 1, Len(calls))
ApplyZero == Call("set_PWM_dutycycle", self_pi, 0, "loop")
Release == Call("stop", self_pi, 0, "loop")

C1_WitnessPreset == looppc = "done" /\ targets = << >>

\* C2: a SIGTERM delivered after the loop thread was started sets the token,
\* and the process does not end before the fan is at 0 and the handle released
C2_SigtermAfterStartCleansUp ==
    sigAfterStart =>
        /\ token
        /\ proc # "running" => hw_dc = 0 /\ self_pi \notin open

\* the number of iterations whose target differs from the duty cycle applied
\* before it (FanController._dc is 0 before the first)
Changes(ts) == Cardinality({i \in 1..Len(ts) : ts[i] # (IF i = 1 THEN 0 ELSE ts[i - 1])})

\* C3: the steady-state loop has called apply-duty-cycle once per change of
\* the target, not once per sample, and the last applied value is the last
\* target
C3_AppliesEqualChanges ==
    /\ Cardinality(Applies(SteadyCalls)) = Changes(targets)
    /\ targets # << >> => self_dc = targets[Len(targets)]

\* C3 witness: three samples, the second repeats the first, the third differs
C3_Witness ==
    /\ Len(targets) = 3 /\ targets[1] = targets[2] /\ targets[2] # targets[3]
    /\ looppc = "sleep"

\* C4 (as claimed): once an attempt of pigpio_setup has failed while
\* programming the frequency or the range, no further attempt is made
C4_ProgrammingFailureNotRetried ==
    [][setupErr = "program" => attempt' = attempt]_vars

\* the handle h is connected and was programmed: pi(), set_PWM_frequency and
\* set_PWM_range(100) were called on it, in that order
Programmed(h) ==
    \E i \in 1..Len(calls) :
        /\ i + 2 <= Len(calls)
        /\ calls[i] = Call("pi", h, 0, "main")
        /\ calls[i + 1] = Call("set_PWM_frequency", h, 0, "main")
        /\ calls[i + 2] = Call("set_PWM_range", h, 100, "main")

SetupReturned == mainpc = "thread" /\ self_pi \in open /\ Programmed(self_pi)

\* C5: for a backend that refuses any number of connections and then accepts
\* them, pigpio_setup eventually returns with a connected, programmed handle
\* (unless SIGTERM ends the process first); it never gives up
C5_ConnectEventuallyReturns ==
    (mainpc = "setup") ~> (SetupReturned \/ proc = "killed")

\* C5 witness: setup returned after every refusal the backend had in store
C5_Witness == SetupReturned /\ attempt > MaxUnreachable /\ setupErr = "connect"

\* C6: the wait between attempts never decreases and never exceeds 5
C6_WaitNonDecreasingCapped ==
    [][wait' >= wait /\ wait' <= 5]_vars

\* C6 witness: the cap is reached, after a wait below it
C6_Witness == wait = 5 /\ attempt >= 4 /\ mainpc = "setup"

\* the preconditions on the startup parameters
Precondition(a) ==
    /\ a.precision \in {5, 10, 25, 50}
    /\ 0 <= a.min_dc /\ a.min_dc <= 95
    /\ 5 <= a.max_dc /\ a.max_dc <= 100
    /\ a.min_dc < a.max_dc
    /\ (a.max_dc - a.min_dc) % a.precision = 0

Ascending(q) == \A i \in 1..(Len(q) - 1) : q[i] < q[i + 1]

\* C8: the thresholds and the duty cycles of a constructed configuration have
\* precision+1 entries each, are strictly ascending, run from 30 to 80 and
\* from min_dc to max_dc, and the table maps threshold i to duty cycle i
C8_TableShape ==
    cfg # NoCfg =>
        LET n == args.precision + 1
            table == runtime_values(cfg)
        IN
        /\ Len(cfg.temp_range) = n /\ Len(cfg.dc_range) = n
        /\ Ascending(cfg.temp_range) /\ Ascending(cfg.dc_range)
        /\ cfg.temp_range[1] = 30 /\ cfg.temp_range[n] = 80
        /\ cfg.dc_range[1] = args.min_dc /\ cfg.dc_range[n] = args.max_dc
        /\ DOMAIN table = {cfg.temp_range[i] : i \in 1..n}
        /\ \A i \in 1..n : table[cfg.temp_range[i]] = cfg.dc_range[i]

\* C8 witness: the finest table over the widest range
C8_Witness ==
    cfg # NoCfg /\ args.precision = 50 /\ args.min_dc = 0 /\ args.max_dc = 100

IsExample == args = [min_dc |-> 20, max_dc |-> 40, precision |-> 10]
Sampled47 == targets # << >> /\ floor(temp) = 47

\* C9 (as claimed): with min_dc=20, max_dc=40, precision=10 the duty cycle
\* selected for 47 degrees is 28
C9_Lookup47Is28 == IsExample /\ Sampled47 => targets[Len(targets)] = 28

\* C9 (amended): with min_dc=20, max_dc=40, precision=10 the duty cycle
\* selected for 47 degrees is 26, the value aligned with threshold 45
C9_Lookup47Is26 ==
    IsExample /\ Sampled47 =>
        /\ targets[Len(targets)] = 26
        /\ cfg.temp_range[4] = 45 /\ cfg.dc_range[4] = 26

\* C9 witness: the example configuration has sampled 47.9 degrees
C9_Witness == IsExample /\ Sampled47 /\ temp = 479

\* C10: the selected duty cycle is min_dc for every reading of at most 30
\* degrees, negative ones included, and max_dc for every reading of at least 80
C10_LookupEnds ==
    targets # << >> =>
        /\ temp <= 300 => targets[Len(targets)] = args.min_dc
        /\ temp >= 800 => targets[Len(targets)] = args.max_dc

\* C10 witness: a negative reading was looked up in a table with min_dc > 0
C10_Witness == targets # << >> /\ temp < 0 /\ args.min_dc > 0

LastTarget == targets[Len(targets)]

\* the next reading above x among the readings of the table specification
\* (x itself for the highest one)
NextReading(x) ==
    LET above == {y \in CfgReadings : y > x}
    IN  IF above = {} THEN x ELSE CHOOSE y \in above : \A z \in above : y <= z

\* C11: lookup is monotonic non-decreasing: the duty cycle selected for a
\* reading is at most the one selected for the next higher reading (and so,
\* along the chain of readings, for every higher reading)
C11_LookupMonotonic ==
    targets # << >> /\ temp \in CfgReadings =>
        LastTarget <= lookup(cfg, NextReading(temp))

\* C11 witness: a reading whose next higher reading selects a higher duty cycle
C11_Witness ==
    /\ targets # << >> /\ temp = 499
    /\ LastTarget < lookup(cfg, NextReading(temp))

\* C12 (as claimed): when the first iteration of the loop is over, the
\* backend's apply-duty-cycle operation has been invoked
C12_FirstIterationApplies ==
    Len(targets) >= 1 /\ observed = None => Applies(calls) # {}

\* C13: lookup is total: the floored, quantized and clamped temperature is a
\* threshold of the table, and the selected duty cycle is the table's entry
\* for it, never None
C13_LookupTotal ==
    targets # << >> =>
        LET key == clamp(quantize(cfg, floor(temp))) IN
        /\ key \in {cfg.temp_range[i] : i \in 1..Len(cfg.temp_range)}
        /\ key \in DOMAIN runtime_values(cfg)
        /\ LastTarget # None
        /\ LastTarget \in {cfg.dc_range[i] : i \in 1..Len(cfg.dc_range)}

\* C13 witness: a reading strictly inside a bucket of the coarsest table
C13_Witness ==
    targets # << >> /\ temp = 479 /\ args.precision = 5 /\ LastTarget # None

\* the duty cycle of the steady-state apply before the last one (None when
\* the last one is the first)
PreviousApplied ==
    LET a == Applies(calls)
        last == CHOOSE i \in a : \A j \in a : j <= i
        before == a \ {last}
    IN  IF before = {} THEN None
        ELSE calls[CHOOSE i \in before : \A j \in before : j <= i].arg

\* a fault of set_PWM_dutycycle happened in a RUNNING iteration
RunningFault == applyFaults < MaxApplyFaults /\ observed = None

\* C14: after a failure of set_PWM_dutycycle in a RUNNING iteration the loop
\* thread has ended abnormally; the failed call is the last backend call (no
\* retry, no apply(0), no stop) in every later state, the handle is still
\* open, and the backend's duty cycle is the one of the last apply that
\* succeeded (None, the duty cycle from before the process, when none did)
C14_ApplyFailureEndsLoop ==
    RunningFault =>
        /\ looppc = "crashed"
        /\ calls[Len(calls)] = Call("set_PWM_dutycycle", self_pi, LastTarget, "loop")
        /\ Stops(calls) = {}
        /\ self_pi \in open
        /\ hw_dc = PreviousApplied
        /\ self_dc = LastTarget

\* C14 witness: the failure came after an apply that succeeded, and the
\* process has ended with the fan at that earlier duty cycle
C14_Witness ==
    /\ RunningFault /\ looppc = "crashed" /\ proc = "exited"
    /\ hw_dc # None /\ hw_dc # self_dc

\* the steady-state applies called after the token was first set
AppliesAfterSet == {i \in Applies(SteadyCalls) : i > setAt[2]}

\* a call of set_PWM_dutycycle has raised
BackendError == applyFaults < MaxApplyFaults

\* C15: once the token is set the loop takes at most one further sample and
\* makes at most one further steady-state apply call, and, the loop thread
\* being scheduled fairly and no backend call raising, it ends in STOPPED
C15_CancellationLatency ==
    /\ [](token => /\ Len(targets) <= setAt[1] + 1
                   /\ Cardinality(AppliesAfterSet) <= 1)
    /\ token ~> (looppc = "done" \/ BackendError)

\* C15 witness: the token was set in the middle of an iteration, the loop
\* finished that iteration with an apply, and then stopped
C15_Witness ==
    /\ token /\ looppc = "done"
    /\ Len(targets) = setAt[1] + 1 /\ Cardinality(AppliesAfterSet) = 1

\* a step of the signal-handling context: a SIGTERM taken by signal_handler
HandlerStep == registered /\ sigs' # sigs

\* the state of the backend and of the controller that the loop owns
OwnedByLoop == << self_dc, self_pi, calls, open, hw_dc >>

\* C16 (as claimed): the only effect of the signal-handling context is the
\* write of the cancellation flag: no logging, no backend operation
C16_HandlerOnlyWritesFlag ==
    [][HandlerStep => token' /\ logged' = logged /\ UNCHANGED OwnedByLoop]_vars

\* C16 (amended): the signal-handling context logs one message and writes the
\* cancellation flag; it makes no backend call and changes neither the duty
\* cycle nor the handle, and every apply(0) and stop of the cleanup is made
\* by the loop thread
C16_HandlerLogsAndWritesFlag ==
    /\ [][HandlerStep =>
            /\ token' /\ logged' = logged + 1
            /\ UNCHANGED OwnedByLoop
            /\ UNCHANGED << mainVars, proc, registered, loopVars >>]_vars
    /\ [](\A i \in Stops(calls) \cup Applies(calls) : calls[i].by = "loop")
    /\ [](logged = sigs \/ ~registered)

\* C16 witness: two SIGTERMs were handled and the loop thread did the cleanup
C16_Witness == logged = 2 /\ token /\ looppc = "done" /\ hw_dc = 0

\* C17: the token only goes from unset to set: no step resets it, only a
\* step of signal_handler changes it, a loop step leaves it as it is, and a
\* second SIGTERM leaves it set
C17_TokenSetOnce ==
    /\ [][token => token']_vars
    /\ [][token' # token => HandlerStep /\ looppc' = looppc]_vars
    /\ [][looppc' # looppc => token' = token]_vars
    /\ [][HandlerStep /\ token => token' /\ setAt' = setAt]_vars
    /\ [](token => registered /\ sigs >= 1)

\* C17 witness: a second SIGTERM was handled after the loop had seen the
\* token set, which is still set
C17_Witness == token /\ sigs = 2 /\ observed # None /\ setAt[1] # None

\* C18: once the loop thread is started, _dc, the handle and the backend are
\* changed by steps of the loop thread only (never by the main thread or the
\* handler it runs), every backend call of the main thread precedes every
\* call of the loop thread, and what the main thread still changes is the
\* token (with the handler's registration and its own position)
C18_OnlyTokenShared ==
    /\ [][looppc # "notstarted" /\ OwnedByLoop' # OwnedByLoop =>
            looppc' # looppc /\ mainpc' = mainpc /\ sigs' = sigs]_vars
    /\ [][looppc # "notstarted" /\ looppc' = looppc =>
            UNCHANGED << OwnedByLoop, temp, targets, observed, cfg >>]_vars
    /\ [](\A i, j \in 1..Len(calls) :
            i < j /\ calls[i].by = "loop" => calls[j].by = "loop")
    /\ [](\A i \in 1..Len(calls) :
            calls[i].by = "main" =>
                calls[i].op \in {"pi", "set_PWM_frequency", "set_PWM_range"})

\* C18 witness: the process has ended after the loop applied duty cycles and
\* cleaned up, with SIGTERM handled by the main thread
C18_Witness ==
    /\ proc = "exited" /\ looppc = "done" /\ token
    /\ Cardinality(Applies(calls)) >= 3

\* the entries of the duty-cycle table
TableValues == {cfg.dc_range[i] : i \in 1..Len(cfg.dc_range)}

\* C19: every duty cycle passed to the backend by the steady-state loop is an
\* entry of the duty-cycle table, within [min_dc, max_dc]; the only other
\* apply call is the apply(0) of the cleanup; and at every iteration boundary
\* after an iteration _dc is the table value for the last reading
C19_AppliedValuesFromTable ==
    /\ \A i \in Applies(SteadyCalls) :
          /\ calls[i].arg \in TableValues
          /\ args.min_dc <= calls[i].arg /\ calls[i].arg <= args.max_dc
    /\ \A i \in Applies(calls) \ Applies(SteadyCalls) : calls[i].arg = 0
    /\ targets # << >> /\ looppc \in {"sleep", "check", "cleanup"} =>
          /\ self_dc = lookup(cfg, temp)
          /\ self_dc \in TableValues
          /\ hw_dc \in {self_dc, None}

\* C19 witness: at an iteration boundary after two iterations, with the
\* highest duty cycle of the table applied
C19_Witness ==
    /\ looppc = "check" /\ Len(targets) >= 2
    /\ hw_dc = args.max_dc /\ self_dc = hw_dc

LoopCalls == {i \in 1..Len(calls) : calls[i].by = "loop"}

\* the calls pi(), set_PWM_frequency, set_PWM_range(100) on handle h are in
\* the log, in that order, all before call i
ProgrammedBefore(h, i) ==
    \E k \in 1..Len(calls) :
        /\ k + 2 < i
        /\ calls[k] = Call("pi", h, 0, "main")
        /\ calls[k + 1] = Call("set_PWM_frequency", h, 0, "main")
        /\ calls[k + 2] = Call("set_PWM_range", h, 100, "main")

\* C20: no backend call of the loop (no apply in particular) is made before
\* pigpio_setup has returned; every call of the loop is made on the handle of
\* the last, successful attempt, which is connected and on which the
\* frequency and then the range 100 were set before; failed attempts do not
\* change this
C20_LoopUsesProgrammedHandle ==
    /\ mainpc \in {"validate", "rejected", "construct", "error", "setup"} =>
          looppc = "notstarted" /\ LoopCalls = {} /\ Applies(calls) = {}
    /\ looppc # "notstarted" =>
          /\ self_pi = attempt /\ self_pi >= 1
          /\ looppc # "done" => self_pi \in open
          /\ Programmed(self_pi)
    /\ \A i \in LoopCalls :
          calls[i].h = self_pi /\ ProgrammedBefore(self_pi, i)

\* C20 witness: the loop applies a duty cycle on the handle of the third
\* attempt, after a refused connection and a programming fault
C20_Witness ==
    /\ looppc = "sleep" /\ attempt = 3 /\ setupErr = "program"
    /\ Applies(calls) # {}

====
